---- MODULE Spec2Model ----
(***************************************************************************)
(* TaskFlow frontend: the HTTP gateway (axios interceptors with            *)
(* refresh-on-401), the credential store, the react-query task cache and   *)
(* the Kanban board pages, modelled as state machines.                     *)
(***************************************************************************)
EXTENDS Integers, Sequences, FiniteSets, TLC

(* ------------------------------------------------------------------ *)
(* Bounds                                                               *)
(* ------------------------------------------------------------------ *)
\* number of API requests issued through apiClient
MaxReq == 2
\* number of access tokens the server hands out (login + refreshes)
MaxTok == 2

\* number of query calls (hook instances), each mounting one query
MaxCallers == 2
\* number of writes the server accepts (versions of its data)
MaxMut == 1
\* number of drop events handled by a board
MaxDrops == 2
\* number of method calls followed to their continuation
MaxOps == 1
\* number of filters a list call defines
MaxFilters == 2

Requests == 1..MaxReq

\* the requests made by the method calls that are followed to the end
Ops == 1..MaxOps

\* HTTP statuses the server can answer a failing request with
HTTP_UNAUTHORIZED == 401
\* 500 stands for every failure status other than 401
ErrorStatuses == {HTTP_UNAUTHORIZED, 500}

VARIABLES
    \* ---- localStorage + zustand auth store ----
    access_token,      \* localStorage['access_token']; 0 = absent, k = k-th token issued
    refresh_token,     \* localStorage['refresh_token']; 0 = absent, 1 = present
    user,              \* useAuthStore.user; 0 = null, 1 = a user
    isAuthenticated,   \* useAuthStore.isAuthenticated
    location,          \* window.location.href: "app" or "/login"
    \* ---- gateway ----
    reqs,              \* request id -> the request's config and progress
    issued,            \* number of access tokens the server has issued so far
    \* ---- react-query cache ----
    cache,             \* query key -> entry (created on first query)
    net,               \* query key -> network calls in flight for it
    srv,               \* version of the server's task data
    muts,              \* mutations in flight
    mutStatus,         \* status of the mutation hook last used: idle/pending/success/error
    \* ---- KanbanBoard component ----
    draggedTask,       \* useState: id of the task being dragged, or "null"
    draggedOverColumn, \* useState: id of the column dragged over, or "null"
    lastDrop,          \* the drop event handled last: its number, task, target, source
    \* ---- BoardPage backed by the API ----
    srvTasks,          \* the server's task list: task id -> status
    boardList,         \* the cache entry of useTasks({page_size: 100})
    moves,             \* status mutations in flight
    \* ---- BoardPage holding local state ----
    columns,           \* useState(initialColumns)
    \* ---- resource clients ----
    filters,           \* the filters object a list call is made with
    sent               \* the list call made last and the query parameters it sent

gwVars == <<access_token, refresh_token, user, isAuthenticated, location, reqs, issued>>

cacheVars == <<cache, net, srv, muts, mutStatus>>

dragVars == <<draggedTask, draggedOverColumn, lastDrop>>
apiBoardVars == <<srvTasks, boardList, moves>>

clientVars == <<filters, sent>>

nonGwVars == <<cacheVars, dragVars, apiBoardVars, columns, clientVars>>
nonCacheVars == <<gwVars, dragVars, apiBoardVars, columns, clientVars>>
nonBoardVars == <<gwVars, cacheVars, clientVars>>
nonClientVars == <<gwVars, cacheVars, dragVars, apiBoardVars, columns>>

vars == <<access_token, refresh_token, user, isAuthenticated, location, reqs, issued,
          cache, net, srv, muts, mutStatus,
          draggedTask, draggedOverColumn, lastDrop, srvTasks, boardList, moves, columns,
          filters, sent>>

(* ------------------------------------------------------------------ *)
(* Credential store (zustand useAuthStore)                              *)
(* ------------------------------------------------------------------ *)

\* setAuth(user, accessToken, refreshToken)
setAuth(tok) ==
    /\ access_token' = tok
    /\ refresh_token' = 1
    /\ user' = 1
    /\ isAuthenticated' = TRUE

\* a plausible slip: the refresh token is left in localStorage
clearAuth_KeepsRefreshToken ==
    /\ access_token' = 0
    /\ refresh_token' = refresh_token
    /\ user' = 0
    /\ isAuthenticated' = FALSE

\* clearAuth()
clearAuth ==
    /\ access_token' = 0
    /\ refresh_token' = 0
    /\ user' = 0
    /\ isAuthenticated' = FALSE

\* a login or logout method whose request has finished has its continuation
\* queued as a microtask: it runs before any other event is handled
ContinuationDue ==
    \E r \in DOMAIN reqs :
        /\ reqs[r].pc = "done"
        /\ reqs[r].outcome = "none"
        /\ reqs[r].op \in {"logout", "svcLogout", "login", "profile"}

\* A successful login/registration: the server issues a token pair and the
\* store records it.
SetAuth ==
    /\ ~ContinuationDue
    /\ issued < MaxTok
    /\ issued' = issued + 1
    /\ setAuth(issued + 1)
    /\ UNCHANGED <<location, reqs>>
    /\ UNCHANGED nonGwVars

ClearAuth ==
    /\ ~ContinuationDue
    /\ clearAuth
    /\ UNCHANGED <<location, reqs, issued>>
    /\ UNCHANGED nonGwVars

(* ------------------------------------------------------------------ *)
(* HTTP gateway (apiClient interceptors)                                *)
(* ------------------------------------------------------------------ *)

\* a request: resp is the status of the last response it received (0 = none),
\* result what its caller was handed, errStatus the response.status of the
\* error the caller was rejected with (0 = the error carries no response)
\* op is the method that made the request, outcome what that method's own
\* caller observed once the method had finished, data the access token of the
\* token pair a login response carries (0 = none)
NewRequest == [pc |-> "idle", retry |-> FALSE, auth |-> 0, resp |-> 0,
               replays |-> 0, refreshes |-> 0, result |-> "none", errStatus |-> 0,
               op |-> "none", outcome |-> "none", data |-> 0]

\* request interceptor: attach the stored access token, if any
AttachToken(cfg) ==
    IF access_token # 0 THEN [cfg EXCEPT !.auth = access_token] ELSE cfg

\* apiClient.get/post/...: the request leaves through the request interceptor
Send(r) ==
    /\ ~ContinuationDue
    /\ reqs[r].pc = "idle"
    /\ reqs' = [reqs EXCEPT ![r] = [AttachToken(@) EXCEPT !.pc = "sent", !.op = "call"]]
    /\ UNCHANGED <<access_token, refresh_token, user, isAuthenticated, location, issued>>
    /\ UNCHANGED nonGwVars

\* response interceptor, success path: (response) => response
ResponseOk(r) ==
    /\ ~ContinuationDue
    /\ reqs[r].pc = "sent"
    /\ reqs[r].op # "login"
    /\ reqs' = [reqs EXCEPT ![r].pc = "done", ![r].result = "ok",
                            ![r].resp = 200]
    /\ UNCHANGED <<access_token, refresh_token, user, isAuthenticated, location, issued>>
    /\ UNCHANGED nonGwVars

\* catch (refreshError): remove both tokens, redirect, reject with refreshError;
\* status is refreshError.response.status, 0 for the Error thrown when no
\* refresh token is stored
RefreshCatch(r, status) ==
    /\ access_token' = 0
    /\ refresh_token' = 0
    /\ location' = "/login"
    /\ reqs' = [reqs EXCEPT ![r].pc = "done", ![r].retry = TRUE,
                            ![r].result = "refreshErr", ![r].errStatus = status]
    /\ UNCHANGED <<user, isAuthenticated, issued>>

\* return Promise.reject(error): the caller gets the error of the response
RejectError(r, status) ==
    /\ reqs' = [reqs EXCEPT ![r].pc = "done", ![r].resp = status,
                   ![r].result = IF status = HTTP_UNAUTHORIZED THEN "e401" ELSE "e500",
                   ![r].errStatus = status]
    /\ UNCHANGED <<access_token, refresh_token, user, isAuthenticated,
                   location, issued>>

\* the try block up to the await of axios.post(.../auth/token/refresh/)
StartRefresh(r, status) ==
    IF refresh_token = 0
    THEN \* throw new Error('No refresh token available') -> catch
         /\ access_token' = 0
         /\ refresh_token' = 0
         /\ location' = "/login"
         /\ reqs' = [reqs EXCEPT ![r].pc = "done", ![r].retry = TRUE,
                                 ![r].resp = status,
                                 ![r].result = "refreshErr", ![r].errStatus = 0]
         /\ UNCHANGED <<user, isAuthenticated, issued>>
    ELSE /\ reqs' = [reqs EXCEPT ![r].pc = "refreshing", ![r].retry = TRUE,
                                 ![r].resp = status, ![r].refreshes = @ + 1]
         /\ UNCHANGED <<access_token, refresh_token, user, isAuthenticated,
                        location, issued>>

\* a plausible slip: the handler never looks at originalRequest._retry
OnResponseError_IgnoresRetry(r, status) ==
    IF status = HTTP_UNAUTHORIZED
    THEN StartRefresh(r, status)
    ELSE RejectError(r, status)

\* a plausible slip: the handler refreshes on every failure status
OnResponseError_AnyStatus(r, status) ==
    IF ~reqs[r].retry
    THEN StartRefresh(r, status)
    ELSE RejectError(r, status)

\* response interceptor, error path, up to the await of the refresh call
OnResponseError(r, status) ==
    IF status = HTTP_UNAUTHORIZED /\ ~reqs[r].retry
    THEN StartRefresh(r, status)
    ELSE RejectError(r, status)

ResponseError(r, status) ==
    /\ ~ContinuationDue
    /\ reqs[r].pc = "sent"
    /\ OnResponseError(r, status)
    /\ UNCHANGED nonGwVars

\* a plausible slip: the replay leaves with the header the request already had
RefreshResolve_StaleHeader(r) ==
    /\ ~ContinuationDue
    /\ reqs[r].pc = "refreshing"
    /\ issued < MaxTok
    /\ issued' = issued + 1
    /\ access_token' = issued + 1
    /\ reqs' = [reqs EXCEPT ![r].pc = "sent", ![r].replays = @ + 1]
    /\ UNCHANGED <<refresh_token, user, isAuthenticated, location>>
    /\ UNCHANGED nonGwVars

\* the refresh call resolves: store the new access token, replay the request
RefreshResolve(r) ==
    /\ ~ContinuationDue
    /\ reqs[r].pc = "refreshing"
    /\ issued < MaxTok
    /\ issued' = issued + 1
    /\ access_token' = issued + 1
    /\ reqs' = [reqs EXCEPT ![r].pc = "sent", ![r].auth = issued + 1,
                            ![r].replays = @ + 1]
    /\ UNCHANGED <<refresh_token, user, isAuthenticated, location>>
    /\ UNCHANGED nonGwVars

\* the refresh call, had it been posted through apiClient: its 401 would enter
\* the response interceptor with a fresh config and start a refresh of its own
OnRefreshError_Intercepted(r, status) ==
    IF status = HTTP_UNAUTHORIZED /\ refresh_token # 0
    THEN /\ reqs' = [reqs EXCEPT ![r].refreshes = @ + 1]
         /\ UNCHANGED <<access_token, refresh_token, user, isAuthenticated,
                        location, issued>>
    ELSE RefreshCatch(r, status)

\* the refresh call is posted with bare axios: its failure passes through no
\* interceptor and lands in the catch block
OnRefreshError(r, status) == RefreshCatch(r, status)

\* the refresh call rejects with a status
RefreshReject(r, status) ==
    /\ ~ContinuationDue
    /\ reqs[r].pc = "refreshing"
    /\ OnRefreshError(r, status)
    /\ UNCHANGED nonGwVars

(* ------------------------------------------------------------------ *)
(* Methods that call through the gateway and their continuations       *)
(* ------------------------------------------------------------------ *)

\* the request of a logout method leaves, or the method skips it when no
\* refresh token is stored
StartLogout(r, op) ==
    /\ ~ContinuationDue
    /\ reqs[r].pc = "idle"
    /\ reqs' = [reqs EXCEPT ![r] =
                  IF refresh_token # 0
                  THEN [AttachToken(@) EXCEPT !.pc = "sent", !.op = op]
                  ELSE [@ EXCEPT !.pc = "done", !.op = op, !.result = "skipped"]]
    /\ UNCHANGED <<access_token, refresh_token, user, isAuthenticated, location, issued>>
    /\ UNCHANGED nonGwVars

\* useAuth().logout: logoutMutation.mutationFn posts /users/logout/ when a
\* refresh token is stored
Logout(r) == StartLogout(r, "logout")

\* authService.logout of services/api/auth.ts: posts /auth/logout/ when a
\* refresh token is stored
AuthServiceLogout(r) == StartLogout(r, "svcLogout")

\* useAuth().login: loginMutation.mutationFn posts /users/login/
Login(r) ==
    /\ ~ContinuationDue
    /\ reqs[r].pc = "idle"
    /\ reqs' = [reqs EXCEPT ![r] = [AttachToken(@) EXCEPT !.pc = "sent", !.op = "login"]]
    /\ UNCHANGED <<access_token, refresh_token, user, isAuthenticated, location, issued>>
    /\ UNCHANGED nonGwVars

\* the server accepts the login and answers with a new token pair
LoginOk(r) ==
    /\ ~ContinuationDue
    /\ reqs[r].pc = "sent"
    /\ reqs[r].op = "login"
    /\ issued < MaxTok
    /\ issued' = issued + 1
    /\ reqs' = [reqs EXCEPT ![r].pc = "done", ![r].result = "ok",
                            ![r].resp = 200, ![r].data = issued + 1]
    /\ UNCHANGED <<access_token, refresh_token, user, isAuthenticated, location>>
    /\ UNCHANGED nonGwVars

\* loginMutation once mutationFn has finished: onSuccess writes both tokens to
\* localStorage and awaits authService.getProfile(); a rejected login leaves
\* the mutation in error
SettleLogin(r) ==
    IF reqs[r].result = "ok"
    THEN /\ access_token' = reqs[r].data
         /\ refresh_token' = 1
         /\ reqs' = [reqs EXCEPT ![r] =
                       [NewRequest EXCEPT !.pc = "sent", !.op = "profile",
                                          !.auth = reqs[r].data, !.data = reqs[r].data]]
         /\ UNCHANGED <<user, isAuthenticated, location, issued, cache, net>>
    ELSE /\ reqs' = [reqs EXCEPT ![r].outcome = "rejected"]
         /\ UNCHANGED <<access_token, refresh_token, user, isAuthenticated,
                        location, issued, cache, net>>

\* loginMutation.onSuccess after the awaited getProfile: setAuth and navigate;
\* when getProfile rejects, onSuccess throws and nothing more is done
SettleProfile(r) ==
    IF reqs[r].result = "ok"
    THEN /\ reqs' = [reqs EXCEPT ![r].outcome = "resolved"]
         /\ setAuth(reqs[r].data)
         /\ location' = "/dashboard"
         /\ UNCHANGED <<issued, cache, net>>
    ELSE /\ reqs' = [reqs EXCEPT ![r].outcome = "rejected"]
         /\ UNCHANGED <<access_token, refresh_token, user, isAuthenticated,
                        location, issued, cache, net>>

\* queryClient.clear()
queryClient_clear ==
    /\ cache' = <<>>
    /\ net' = <<>>

\* logoutMutation once mutationFn has finished: onSuccess clears the session;
\* a rejection of authService.logout leaves the mutation in error
SettleLogout(r) ==
    IF reqs[r].result \in {"ok", "skipped"}
    THEN /\ reqs' = [reqs EXCEPT ![r].outcome = "resolved"]
         /\ clearAuth
         /\ location' = "/login"
         /\ queryClient_clear
         /\ UNCHANGED issued
    ELSE /\ reqs' = [reqs EXCEPT ![r].outcome = "rejected"]
         /\ UNCHANGED <<access_token, refresh_token, user, isAuthenticated,
                        location, issued, cache, net>>

\* authService.logout of services/api/auth.ts after its request: the catch
\* logs a failure, then both tokens are removed and the method resolves
SettleAuthServiceLogout(r) ==
    /\ reqs' = [reqs EXCEPT ![r].outcome = "resolved"]
    /\ access_token' = 0
    /\ refresh_token' = 0
    /\ UNCHANGED <<user, isAuthenticated, location, issued, cache, net>>

\* a resource client method after its request: return response.data, or the
\* rejection of the awaited request propagates
SettleCall(r) ==
    /\ reqs' = [reqs EXCEPT ![r].outcome =
                  IF reqs[r].result = "ok" THEN "resolved" ELSE "rejected"]
    /\ UNCHANGED <<access_token, refresh_token, user, isAuthenticated,
                   location, issued, cache, net>>

\* the continuation of the method that awaited request r
Settle(r) ==
    /\ reqs[r].pc = "done"
    /\ reqs[r].outcome = "none"
    /\ CASE reqs[r].op = "logout" -> SettleLogout(r)
         [] reqs[r].op = "svcLogout" -> SettleAuthServiceLogout(r)
         [] reqs[r].op = "login" -> SettleLogin(r)
         [] reqs[r].op = "profile" -> SettleProfile(r)
         [] OTHER -> SettleCall(r)
    /\ UNCHANGED <<srv, muts, mutStatus, dragVars, apiBoardVars, columns, clientVars>>

(* ------------------------------------------------------------------ *)
(* Gateway claims                                                       *)
(* ------------------------------------------------------------------ *)

Refreshing == {r \in Requests : reqs[r].pc = "refreshing"}

\* C1: when several requests are in flight and each receives a 401, exactly
\* one token-refresh call is issued: at no time are two refresh calls
\* outstanding.
C1_RefreshSingleton == Cardinality(Refreshing) <= 1

\* C2: every original request is replayed at most once and starts at most
\* one refresh; a request rejected with 401 after its replay is finished and
\* handed to its caller.
C2_NoDoubleRetry ==
    \A r \in Requests :
        /\ reqs[r].replays <= 1
        /\ reqs[r].refreshes <= 1
        /\ reqs[r].replays = 1 => reqs[r].retry
        /\ (reqs[r].result = "e401" /\ reqs[r].retry) =>
               (reqs[r].pc = "done" /\ reqs[r].replays = 1)

\* a request was refreshed, replayed, answered 401 again and rejected
C2_Witness ==
    \E r \in Requests :
        reqs[r].result = "e401" /\ reqs[r].replays = 1 /\ reqs[r].pc = "done"

\* C10: whenever a 401-triggered refresh cannot produce a new access token,
\* the access token, the refresh token and the user/authenticated flag are
\* cleared and the request is rejected without being retried.
C10_RefreshFailureClearsCredentials ==
    [][\A r \in Requests :
         (reqs[r].result # "refreshErr" /\ reqs'[r].result = "refreshErr") =>
            /\ access_token' = 0
            /\ refresh_token' = 0
            /\ user' = 0
            /\ ~isAuthenticated'
            /\ reqs'[r].pc = "done"
            /\ reqs'[r].replays = reqs[r].replays]_vars

\* what the caller is handed when a response with this status is passed on
Delivered(status) ==
    IF status = 200 THEN "ok"
    ELSE IF status = HTTP_UNAUTHORIZED THEN "e401" ELSE "e500"

\* C11: a response that is not a first 401 (a success, a failure with another
\* status, or a 401 to a request already retried) is handed to the caller as
\* it is: the request is finished with that response, no refresh call and no
\* replay is started and the stored tokens are unchanged
C11_Passthrough ==
    [][\A r \in Requests :
         (/\ reqs[r].pc = "sent"
          /\ reqs'[r] # reqs[r]
          /\ ~(reqs'[r].resp = HTTP_UNAUTHORIZED /\ ~reqs[r].retry)) =>
            /\ reqs'[r].pc = "done"
            /\ reqs'[r].result = Delivered(reqs'[r].resp)
            /\ reqs'[r].errStatus = IF reqs'[r].resp = 200 THEN 0 ELSE reqs'[r].resp
            /\ reqs'[r].refreshes = reqs[r].refreshes
            /\ reqs'[r].replays = reqs[r].replays
            /\ access_token' = access_token
            /\ refresh_token' = refresh_token]_vars

\* a request sent with stored tokens failed with a status other than 401 and
\* was rejected with it, no refresh started, the tokens still stored
C11_Witness ==
    \E r \in Requests :
        /\ reqs[r].pc = "done"
        /\ reqs[r].resp = 500
        /\ reqs[r].result = "e500"
        /\ reqs[r].refreshes = 0
        /\ reqs[r].auth # 0
        /\ access_token # 0
        /\ refresh_token # 0

\* C12: the failure of a refresh call, whatever its status, starts no other
\* refresh: the request that awaited it is finished and no request's count
\* of refresh calls grows
C12_NoRecursiveRefresh ==
    [][\A r \in Requests :
         (/\ reqs[r].pc = "refreshing"
          /\ reqs'[r] # reqs[r]
          /\ reqs'[r].pc # "sent") =>
            /\ reqs'[r].pc = "done"
            /\ reqs'[r].result = "refreshErr"
            /\ \A r2 \in Requests : reqs'[r2].refreshes = reqs[r2].refreshes]_vars

\* a refresh call was answered 401 and the request was rejected after its
\* single refresh
C12_Witness ==
    \E r \in Requests :
        /\ reqs[r].pc = "done"
        /\ reqs[r].result = "refreshErr"
        /\ reqs[r].errStatus = HTTP_UNAUTHORIZED
        /\ reqs[r].refreshes = 1

\* no credential is stored and the session is unauthenticated
Cleared ==
    /\ access_token = 0
    /\ refresh_token = 0
    /\ user = 0
    /\ ~isAuthenticated

\* C16: whatever the store holds, clearAuth / logout of the store leaves the
\* access token, the refresh token and the user wiped and the session
\* unauthenticated (so a second call changes nothing), and no step wipes the
\* user without wiping the rest
C16_ClearCredentialIdempotent ==
    [][/\ ClearAuth => Cleared'
       /\ (ClearAuth /\ Cleared) => UNCHANGED gwVars
       /\ (user # 0 /\ user' = 0) => Cleared']_vars

\* after a login the store has been cleared again and nothing is pending
C16_Witness ==
    /\ issued > 0
    /\ Cleared
    /\ \A r \in Ops : reqs[r].pc = "idle"

\* C17: when a logout operation finishes, whatever the server answered, the
\* access token, the refresh token and the user are all gone and the session
\* is unauthenticated
C17_LogoutAtomic ==
    [][/\ ClearAuth => Cleared'
       /\ \A r \in Ops :
            (/\ reqs[r].op \in {"logout", "svcLogout"}
             /\ reqs[r].outcome = "none"
             /\ reqs'[r].outcome # "none") => Cleared']_vars

\* C19: a method whose request failed rejects to its caller, and the error
\* it rejects with carries the HTTP status of a response
C19_ErrorsNotSwallowed ==
    \A r \in Ops :
        (reqs[r].outcome # "none" /\ reqs[r].result \notin {"ok", "skipped"}) =>
            /\ reqs[r].outcome = "rejected"
            /\ reqs[r].errStatus # 0

\* C23: when the refresh of request R succeeds, a new access token is stored,
\* R is marked retried and leaves again carrying that token, the refresh
\* token is untouched; R is replayed at most once and its caller is handed
\* the answer to the replay.
C23_RefreshSuccessReplays ==
    [][\A r \in Requests :
         /\ (reqs[r].pc = "refreshing" /\ reqs'[r].pc = "sent") =>
               /\ access_token' # access_token
               /\ access_token' # 0
               /\ reqs'[r].auth = access_token'
               /\ reqs'[r].retry
               /\ reqs'[r].replays = reqs[r].replays + 1
               /\ reqs'[r].replays = 1
               /\ refresh_token' = refresh_token
         /\ (reqs[r].pc = "sent" /\ reqs[r].replays = 1 /\ reqs'[r].pc # "sent") =>
               /\ reqs'[r].pc = "done"
               /\ reqs'[r].replays = 1
               /\ \/ reqs'[r].result = "ok" /\ reqs'[r].resp = 200
                  \/ /\ reqs'[r].result \in {"e401", "e500"}
                     /\ reqs'[r].resp \in ErrorStatuses
                     /\ reqs'[r].errStatus = reqs'[r].resp]_vars

\* a request was refreshed, replayed with the new token and answered
C23_Witness ==
    \E r \in Requests :
        /\ reqs[r].pc = "done"
        /\ reqs[r].replays = 1
        /\ reqs[r].result = "ok"
        /\ reqs[r].auth # 0
        /\ refresh_token # 0

\* C22: the stored refresh token is changed only by a write method of the
\* credential store (setAuth, clearAuth/logout), and once a login has stored
\* the tokens a new access token value is written only by a login or by the
\* gateway's refresh step
C22_TokenWriteOwnership ==
    [][/\ refresh_token' # refresh_token =>
            (clearAuth \/ \E tok \in 1..MaxTok : setAuth(tok))
       /\ (access_token' # access_token /\ access_token' # 0) =>
            (SetAuth \/ \E r \in Requests : RefreshResolve(r))]_vars

\* C24: no state has an access token in storage without a refresh token
C24_AccessImpliesRefresh == access_token # 0 => refresh_token # 0

\* C25: while a refresh call is in flight and the credentials are cleared, a
\* later step of that refresh writes no access token: after clearAuth/logout
\* only a login stores an access token again
C25_ClearedStaysCleared ==
    [][(access_token = 0 /\ refresh_token = 0 /\ access_token' # 0) => SetAuth]_vars

\* C26: whenever no request is in flight and no continuation is pending, the
\* store's isAuthenticated flag is true exactly when an access token is stored
C26_AuthenticatedIffToken ==
    (/\ \A r \in Requests : reqs[r].pc \in {"idle", "done"}
     /\ ~ContinuationDue)
        => (isAuthenticated <=> access_token # 0)

InitGateway ==
    /\ access_token = 0
    /\ refresh_token = 0
    /\ user = 0
    /\ isAuthenticated = FALSE
    /\ location = "app"
    /\ reqs = [r \in Requests |-> NewRequest]
    /\ issued = 0

(* ------------------------------------------------------------------ *)
(* Query cache (react-query) and the task hooks                         *)
(* ------------------------------------------------------------------ *)

TaskIds == {"A", "B"}
\* QueryParams values a list is asked with ("p1" = {page_size: 100})
ParamSets == {"p1", "p2"}

\* staleTime of useTasks, in ms; the other hooks keep the default 0
USE_TASKS_STALE_TIME == 30000

\* taskKeys
taskKeys_all == <<"tasks">>
taskKeys_lists == taskKeys_all \o <<"list">>
taskKeys_list(params) == taskKeys_lists \o <<params>>
taskKeys_details == taskKeys_all \o <<"detail">>
taskKeys_detail(id) == taskKeys_details \o <<id>>
\* a plausible slip: the comments key is not nested under the detail key
taskKeys_comments_Flat(id) == taskKeys_all \o <<"comments", id>>
taskKeys_comments(id) == taskKeys_detail(id) \o <<"comments">>
taskKeys_timeEntries(id) == taskKeys_detail(id) \o <<"timeEntries">>

\* the query hooks: what a component can mount
Queries ==
    [hook : {"useTasks"}, arg : ParamSets]
    \cup [hook : {"useTask", "useTaskComments", "useTaskTimeEntries"}, arg : TaskIds]

\* the query hooks of the feature slice: useTasks(filters), useTask(taskId)
FsQueries ==
    [hook : {"fsUseTasks"}, arg : ParamSets] \cup [hook : {"fsUseTask"}, arg : TaskIds]

\* queryKey of each hook
QueryKey(q) ==
    CASE q.hook = "useTasks" -> taskKeys_list(q.arg)
      [] q.hook = "useTask" -> taskKeys_detail(q.arg)
      [] q.hook = "useTaskComments" -> taskKeys_comments(q.arg)
      [] q.hook = "useTaskTimeEntries" -> taskKeys_timeEntries(q.arg)
      [] q.hook \in {"fsUseTasks", "fsUseTask"} -> <<"tasks", q.arg>>

\* staleTime of each hook
StaleTime(q) == IF q.hook = "useTasks" THEN USE_TASKS_STALE_TIME ELSE 0

NoData == -1

HasEntry(k) == k \in DOMAIN cache
Fetching(k) == HasEntry(k) /\ net[k] > 0
Fresh(k) ==
    /\ HasEntry(k)
    /\ cache[k].data # NoData
    /\ ~cache[k].isInvalidated
    /\ ~cache[k].expired

\* a query is active while some hook instance observes it
Active(k) == HasEntry(k) /\ cache[k].observers > 0

RECURSIVE SumOver(_, _)
SumOver(f, S) ==
    IF S = {} THEN 0
    ELSE LET x == CHOOSE y \in S : TRUE IN f[x] + SumOver(f, S \ {x})

\* hook instances mounted so far
Mounted == SumOver([k \in DOMAIN cache |-> cache[k].observers], DOMAIN cache)

IsPrefix(p, k) == Len(p) <= Len(k) /\ SubSeq(k, 1, Len(p)) = p

Put(f, k, v) == [x \in DOMAIN f \cup {k} |-> IF x = k THEN v ELSE f[x]]

NewEntry(q) == [q |-> q, data |-> NoData, isInvalidated |-> FALSE,
                expired |-> FALSE, observers |-> 0]

\* a slip: every hook instance runs its own request (no shared promise)
useQuery_NoJoin(q) ==
    LET k == QueryKey(q)
        e == IF HasEntry(k) THEN cache[k] ELSE NewEntry(q) IN
    /\ cache' = Put(cache, k, [e EXCEPT !.observers = @ + 1])
    /\ net' = IF Fresh(k) THEN net
              ELSE Put(net, k, IF HasEntry(k) THEN net[k] + 1 ELSE 1)

\* useQuery({queryKey, queryFn}) mounting: the instance observes the entry of
\* its key; fresh data is served from the cache, a fetch in flight for the
\* key is joined, otherwise the one fetch is started
useQuery(q) ==
    LET k == QueryKey(q)
        e == IF HasEntry(k) THEN cache[k] ELSE NewEntry(q) IN
    /\ cache' = Put(cache, k, [e EXCEPT !.observers = @ + 1])
    /\ net' = IF Fresh(k) \/ Fetching(k) THEN net ELSE Put(net, k, 1)

\* a component mounts one of the query hooks
Query(q) ==
    /\ Mounted < MaxCallers
    /\ HasEntry(QueryKey(q)) \/ Cardinality(DOMAIN cache) < MaxCallers
    /\ useQuery(q)
    /\ UNCHANGED <<srv, muts, mutStatus>>
    /\ UNCHANGED nonCacheVars

\* a component showing the data of key k unmounts: its observer leaves, the
\* entry stays in the cache
Unmount(k) ==
    /\ HasEntry(k)
    /\ cache[k].observers > 0
    /\ cache[k].data # NoData
    /\ net[k] = 0
    /\ cache' = [cache EXCEPT ![k].observers = @ - 1]
    /\ UNCHANGED <<net, srv, muts, mutStatus>>
    /\ UNCHANGED nonCacheVars

\* the response of the fetch of key k arrives: the entry takes the data, which
\* every observer of k then reads
FetchResolve(k) ==
    /\ HasEntry(k)
    /\ net[k] > 0
    /\ net' = [net EXCEPT ![k] = @ - 1]
    /\ cache' = [cache EXCEPT ![k].data = srv, ![k].isInvalidated = FALSE,
                              ![k].expired = (StaleTime(cache[k].q) = 0)]
    /\ UNCHANGED <<srv, muts, mutStatus>>
    /\ UNCHANGED nonCacheVars

\* staleTime has passed since the entry was fetched
Expire(k) ==
    /\ HasEntry(k)
    /\ cache[k].data # NoData
    /\ ~cache[k].expired
    /\ cache' = [cache EXCEPT ![k].expired = TRUE]
    /\ UNCHANGED <<net, srv, muts, mutStatus>>
    /\ UNCHANGED nonCacheVars

\* queryClient.invalidateQueries({queryKey: prefix}) on a cache/net pair:
\* every matching entry is marked invalidated; the active ones are refetched,
\* a fetch already running being cancelled first (its response is ignored,
\* so it leaves the calls counted in net)
invalidateQueries(cn, prefix) ==
    LET hit(k) == IsPrefix(prefix, k) IN
    [c |-> [k \in DOMAIN cn.c |->
              IF hit(k) THEN [cn.c[k] EXCEPT !.isInvalidated = TRUE] ELSE cn.c[k]],
     n |-> [k \in DOMAIN cn.n |->
              IF hit(k) /\ Active(k)
              THEN 1
              ELSE cn.n[k]]]

RECURSIVE InvalidateAll(_, _)
InvalidateAll(cn, prefixes) ==
    IF prefixes = <<>> THEN cn
    ELSE InvalidateAll(invalidateQueries(cn, Head(prefixes)), Tail(prefixes))

\* the mutation hooks
MutationsById ==
    [kind : {"useUpdateTask", "useAssignUsers", "useChangeTaskStatus", "useAddComment",
             "useAddReaction", "useLogTime", "fsUseUpdateTask"}, id : TaskIds]
MutationsNoId ==
    [kind : {"useCreateTask", "useDeleteTask", "fsUseCreateTask", "fsUseDeleteTask"},
     id : {"-"}]
Mutations == MutationsById \cup MutationsNoId

\* a slip: useAddComment invalidates the whole task detail, as useAddReaction does
OnSuccessPrefixes_CommentHitsDetail(m) ==
    CASE m.kind \in {"useCreateTask", "useDeleteTask"} -> <<taskKeys_lists>>
      [] m.kind \in {"useUpdateTask", "useAssignUsers", "useChangeTaskStatus"} ->
            <<taskKeys_detail(m.id), taskKeys_lists>>
      [] m.kind \in {"useAddComment", "useAddReaction"} -> <<taskKeys_detail(m.id)>>
      [] m.kind = "useLogTime" -> <<taskKeys_timeEntries(m.id)>>
      [] m.kind \in {"fsUseCreateTask", "fsUseDeleteTask"} -> << <<"tasks">> >>
      [] m.kind = "fsUseUpdateTask" -> << <<"tasks">>, <<"tasks", m.id>> >>

\* a slip: the status-changing hooks invalidate the task detail only
OnSuccessPrefixes_StatusDetailOnly(m) ==
    CASE m.kind \in {"useCreateTask", "useDeleteTask"} -> <<taskKeys_lists>>
      [] m.kind = "useAssignUsers" -> <<taskKeys_detail(m.id), taskKeys_lists>>
      [] m.kind \in {"useUpdateTask", "useChangeTaskStatus"} -> <<taskKeys_detail(m.id)>>
      [] m.kind = "useAddComment" -> <<taskKeys_comments(m.id)>>
      [] m.kind = "useAddReaction" -> <<taskKeys_detail(m.id)>>
      [] m.kind = "useLogTime" -> <<taskKeys_timeEntries(m.id)>>
      [] m.kind \in {"fsUseCreateTask", "fsUseDeleteTask"} -> << <<"tasks">> >>
      [] m.kind = "fsUseUpdateTask" -> << <<"tasks">>, <<"tasks", m.id>> >>

\* onSuccess of each mutation hook: the prefixes it invalidates, in order
OnSuccessPrefixes(m) ==
    CASE m.kind = "useCreateTask" -> <<taskKeys_lists>>
      [] m.kind = "useUpdateTask" -> <<taskKeys_detail(m.id), taskKeys_lists>>
      [] m.kind = "useDeleteTask" -> <<taskKeys_lists>>
      [] m.kind = "useAssignUsers" -> <<taskKeys_detail(m.id), taskKeys_lists>>
      [] m.kind = "useChangeTaskStatus" -> <<taskKeys_detail(m.id), taskKeys_lists>>
      [] m.kind = "useAddComment" -> <<taskKeys_comments(m.id)>>
      [] m.kind = "useAddReaction" -> <<taskKeys_detail(m.id)>>
      [] m.kind = "useLogTime" -> <<taskKeys_timeEntries(m.id)>>
      [] m.kind = "fsUseCreateTask" -> << <<"tasks">> >>
      [] m.kind = "fsUseUpdateTask" -> << <<"tasks">>, <<"tasks", m.id>> >>
      [] m.kind = "fsUseDeleteTask" -> << <<"tasks">> >>

\* mutation.mutate(): the write request leaves.  A mutation touches the
\* cache only in its onSuccess, so overlapping mutations add no cache states
\* and one mutation is followed at a time.
MutStart(m) ==
    /\ muts = {}
    /\ srv < MaxMut
    /\ muts' = muts \cup {m}
    /\ mutStatus' = "pending"
    /\ UNCHANGED <<cache, net, srv>>
    /\ UNCHANGED nonCacheVars

\* onSuccess(_, variables) of the hook
onSuccess(m) ==
    LET cn == InvalidateAll([c |-> cache, n |-> net], OnSuccessPrefixes(m)) IN
    /\ cache' = cn.c
    /\ net' = cn.n

\* the write succeeded on the server: onSuccess runs
MutSuccess(m) ==
    /\ m \in muts
    /\ muts' = muts \ {m}
    /\ mutStatus' = "success"
    /\ srv' = srv + 1
    /\ onSuccess(m)
    /\ UNCHANGED nonCacheVars

\* a slip: the invalidation sits in onSettled, which also runs on failure
onError_Settled(m) == onSuccess(m)

\* the hooks declare no onError/onSettled: a rejected write touches nothing
onError(m) == UNCHANGED <<cache, net>>

\* the write rejected
MutFail(m) ==
    /\ m \in muts
    /\ muts' = muts \ {m}
    /\ mutStatus' = "error"
    /\ onError(m)
    /\ UNCHANGED srv
    /\ UNCHANGED nonCacheVars

(* ------------------------------------------------------------------ *)
(* Cache claims                                                         *)
(* ------------------------------------------------------------------ *)

\* C6: concurrent query calls with an identical key share one fetch: no key
\* ever has two network calls in flight, and observers that are still waiting
\* for the first data of their key have exactly one call in flight.
C6_Coalescing ==
    \A k \in DOMAIN cache :
        /\ net[k] <= 1
        /\ (cache[k].observers > 0 /\ cache[k].data = NoData) => net[k] = 1

\* two callers wait on one key while a single fetch is in flight
C6_Witness ==
    \E k \in DOMAIN cache :
        cache[k].observers >= 2 /\ cache[k].data = NoData /\ net[k] = 1

Untouched(k) == cache'[k] = cache[k] /\ net'[k] = net[k]

\* C7: a successful mutation changes only entries whose key starts with one
\* of the prefixes it declares; all other entries keep data, freshness and
\* fetch state.  In particular a comment added to task t touches nothing but
\* the entries under ['tasks','detail',t,'comments'].
C7_InvalidationScoping ==
    [][\A m \in muts :
         (muts' = muts \ {m} /\ mutStatus' = "success") =>
            /\ DOMAIN cache' = DOMAIN cache
            /\ \A k \in DOMAIN cache :
                 IF \E i \in 1..Len(OnSuccessPrefixes(m)) :
                        IsPrefix(OnSuccessPrefixes(m)[i], k)
                 THEN /\ cache'[k].isInvalidated
                      /\ cache'[k].data = cache[k].data
                 ELSE Untouched(k)
            /\ m.kind = "useAddComment" =>
                 \A k \in DOMAIN cache :
                    ~IsPrefix(<<"tasks", "detail", m.id, "comments">>, k)
                        => Untouched(k)]_vars

\* a mutation has succeeded, leaving the comments of A invalidated next to a
\* fresh detail entry of A
C7_Witness ==
    /\ mutStatus = "success"
    /\ <<"tasks", "detail", "A", "comments">> \in DOMAIN cache
    /\ <<"tasks", "detail", "A">> \in DOMAIN cache
    /\ cache[<<"tasks", "detail", "A", "comments">>].isInvalidated
    /\ cache[<<"tasks", "detail", "A">>].data # NoData
    /\ ~cache[<<"tasks", "detail", "A">>].isInvalidated

\* C8: a mutation that fails performs no invalidation: neither its start nor
\* its rejection changes any cache entry or fetch.
C8_FailedMutationLeavesCache ==
    [][((muts = {} /\ muts' # {}) \/ (muts # {} /\ mutStatus' = "error"))
          => (cache' = cache /\ net' = net)]_vars

\* a mutation was rejected while the cache held data
C8_Witness ==
    /\ mutStatus = "error"
    /\ \E k \in DOMAIN cache : cache[k].data # NoData /\ ~cache[k].isInvalidated

\* the mutations of the feature slice whose write is followed by a read:
\* TasksAPI.create and TasksAPI.update end with this.getById(response.data.id)
FsWriteThenRead == {m \in Mutations : m.kind \in {"fsUseCreateTask", "fsUseUpdateTask"}}

\* the POST/PATCH of create/update is accepted by the server, the getById that
\* follows is rejected: the method rejects and the mutation ends in error
FsReadFail(m) ==
    /\ m \in muts
    /\ m \in FsWriteThenRead
    /\ muts' = muts \ {m}
    /\ mutStatus' = "error"
    /\ srv' = srv + 1
    /\ onError(m)
    /\ UNCHANGED nonCacheVars

\* C29: whenever the write of a feature-slice create or update has been
\* accepted by the server, the step that ends the mutation leaves every
\* cached 'tasks' entry invalidated, the follow-up read failing or not
C29_FsWriteInvalidates ==
    [][\A m \in muts \cap FsWriteThenRead :
         (muts' = muts \ {m} /\ srv' = srv + 1) =>
            \A k \in DOMAIN cache :
               IsPrefix(<<"tasks">>, k) => cache'[k].isInvalidated]_vars

\* C28: a mutation that invalidates taskKeys.detail(id) alone marks the
\* detail, comments and time-entry entries of id and changes no list entry
\* and no entry of another id; one that invalidates taskKeys.lists() alone
\* marks every list entry, whatever its params, and changes no other entry
C28_KeyHierarchy ==
    [][\A m \in muts :
         (muts' = muts \ {m} /\ mutStatus' = "success") =>
            /\ m.kind = "useAddReaction" =>
                 \A k \in DOMAIN cache :
                    IF cache[k].q.hook # "useTasks" /\ cache[k].q.arg = m.id
                    THEN cache'[k].isInvalidated
                    ELSE Untouched(k)
            /\ m.kind \in {"useCreateTask", "useDeleteTask"} =>
                 \A k \in DOMAIN cache :
                    IF cache[k].q.hook = "useTasks"
                    THEN cache'[k].isInvalidated
                    ELSE Untouched(k)]_vars

\* one mutation has succeeded and left both the comments and the time
\* entries of A invalidated: its prefix was the detail key of A
C28_Witness ==
    /\ mutStatus = "success"
    /\ srv = 1
    /\ taskKeys_comments("A") \in DOMAIN cache
    /\ taskKeys_timeEntries("A") \in DOMAIN cache
    /\ cache[taskKeys_comments("A")].isInvalidated
    /\ cache[taskKeys_timeEntries("A")].isInvalidated

\* the board and the task detail: the hooks a status change is seen through
StatusChangeQueries == {q \in Queries : q.hook \in {"useTasks", "useTask"}}

\* the status-changing mutations: updateTask.mutateAsync({id, data: {status}})
\* of BoardPage.handleTaskMove and useChangeTaskStatus
StatusChangeMutations ==
    {m \in Mutations : m.kind \in {"useUpdateTask", "useChangeTaskStatus"}}

\* C20: when a status-changing mutation for task t succeeds, every cached
\* task list and the cached detail of t are marked invalidated, those being
\* observed are refetched at once, and the next query mounted on an
\* invalidated entry starts a fetch instead of serving the cached data.
C20_StatusChangeInvalidates ==
    [][/\ \A m \in muts \cap StatusChangeMutations :
            (muts' = muts \ {m} /\ mutStatus' = "success") =>
               \A k \in DOMAIN cache :
                  (IsPrefix(taskKeys_lists, k) \/ k = taskKeys_detail(m.id)) =>
                      /\ cache'[k].isInvalidated
                      /\ cache[k].observers > 0 => net'[k] = 1
       /\ \A k \in DOMAIN cache :
            (cache[k].isInvalidated /\ cache'[k].observers > cache[k].observers)
                => net'[k] = 1]_vars

\* a status change of A has succeeded: the list entry, left by its observer,
\* waits invalidated for the next query, the observed detail of A is being
\* refetched
C20_Witness ==
    /\ mutStatus = "success"
    /\ \E k \in DOMAIN cache :
          /\ IsPrefix(taskKeys_lists, k)
          /\ cache[k].isInvalidated
          /\ cache[k].observers = 0
          /\ net[k] = 0
    /\ taskKeys_detail("A") \in DOMAIN cache
    /\ cache[taskKeys_detail("A")].isInvalidated
    /\ cache[taskKeys_detail("A")].observers > 0
    /\ net[taskKeys_detail("A")] = 1

InitCache ==
    /\ cache = <<>>
    /\ net = <<>>
    /\ srv = 0
    /\ muts = {}
    /\ mutStatus = "idle"

AllKeys == DOMAIN cache

NextCache ==
    \/ \E q \in Queries : Query(q)
    \/ \E k \in AllKeys : FetchResolve(k)
    \/ \E k \in AllKeys : Expire(k)
    \/ \E m \in Mutations : MutStart(m)
    \/ \E m \in Mutations : MutSuccess(m)
    \/ \E m \in Mutations : MutFail(m)

\* the feature slice: its query hooks and its mutations
NextFeatureSlice ==
    \/ \E q \in FsQueries : Query(q)
    \/ \E k \in AllKeys : FetchResolve(k)
    \/ \E m \in Mutations : m.kind \in {"fsUseCreateTask", "fsUseUpdateTask", "fsUseDeleteTask"}
                               /\ MutStart(m)
    \/ \E m \in Mutations : MutSuccess(m)
    \/ \E m \in Mutations : MutFail(m)
    \/ \E m \in Mutations : FsReadFail(m)

NextStatusChange ==
    \/ \E q \in StatusChangeQueries : Query(q)
    \/ \E k \in AllKeys : Unmount(k)
    \/ \E k \in AllKeys : FetchResolve(k)
    \/ \E k \in AllKeys : Expire(k)
    \/ \E m \in StatusChangeMutations : MutStart(m)
    \/ \E m \in StatusChangeMutations : MutSuccess(m)
    \/ \E m \in StatusChangeMutations : MutFail(m)

(***************************************************************************)
(* KanbanBoard: drag state and the drop handler.                           *)
(***************************************************************************)

\* a column is [id, tasks]; tasks is the sequence of the cards it shows
RECURSIVE columns_find(_, _)
\* columns.find(col => col.tasks.some(task => task.id === taskId)): the id of
\* the first column showing the task, "undefined" when none does
columns_find(cols, taskId) ==
    IF cols = <<>> THEN "undefined"
    ELSE IF \E i \in DOMAIN Head(cols).tasks : Head(cols).tasks[i].id = taskId
         THEN Head(cols).id
         ELSE columns_find(Tail(cols), taskId)

\* handleDrop without the comparison of source and target column
handleDrop_AnyTarget(cols, taskId, columnId) ==
    LET fromColumn == columns_find(cols, taskId)
    IN  [onTaskMove |-> fromColumn # "undefined", fromColumn |-> fromColumn]

\* the decision of handleDrop: whether onTaskMove is called, and with which
\* source column
handleDrop(cols, taskId, columnId) ==
    LET fromColumn == columns_find(cols, taskId)
    IN  [onTaskMove |-> fromColumn # "undefined" /\ fromColumn # columnId,
         fromColumn |-> fromColumn]

\* the record of a handled drop; n numbers the drops
DropEvent(n, taskId, columnId, d) ==
    [n |-> n, task |-> taskId, to |-> columnId, from |-> d.fromColumn,
     moved |-> d.onTaskMove]

\* the set of card ids a list of columns shows
ShownIds(cols) ==
    UNION {{cols[c].tasks[i].id : i \in DOMAIN cols[c].tasks} : c \in DOMAIN cols}

\* the id of the column showing the task, "undefined" when none does
ColumnOf(cols, taskId) == columns_find(cols, taskId)

\* number of cards with this id over all columns
RECURSIVE Occurrences(_, _)
Occurrences(cols, taskId) ==
    IF cols = <<>> THEN 0
    ELSE Cardinality({i \in DOMAIN Head(cols).tasks : Head(cols).tasks[i].id = taskId})
         + Occurrences(Tail(cols), taskId)

InitDrag ==
    /\ draggedTask = "null"
    /\ draggedOverColumn = "null"
    /\ lastDrop = [n |-> 0, task |-> "null", to |-> "null", from |-> "undefined",
                   moved |-> FALSE]

(***************************************************************************)
(* BoardPage holding its columns in local state.                           *)
(***************************************************************************)

LocalColumnIds == <<"todo", "in-progress", "review", "done">>

Card(id, status) == [id |-> id, status |-> status]

initialColumns ==
    << [id |-> "todo", tasks |-> <<Card("1", "todo"), Card("2", "todo")>>],
       [id |-> "in-progress",
        tasks |-> <<Card("3", "in-progress"), Card("4", "in-progress")>>],
       [id |-> "review", tasks |-> <<Card("5", "review")>>],
       [id |-> "done", tasks |-> <<Card("6", "done"), Card("7", "done")>> ] >>

\* what a drag can carry: the id of a card, or text that is no card's id
LocalDragData == {"1", "2", "3", "4", "5", "6", "7", "x"}

\* a plausible slip: the card is looked up in the columns the page started
\* with (a stale closure) instead of the columns of the current render
handleTaskMove_Local_Stale(cols, taskId, fromColumn, toColumn) ==
    LET found == {c \in DOMAIN initialColumns : initialColumns[c].id = fromColumn}
        sourceTasks == IF found = {} THEN <<>>
                       ELSE initialColumns[CHOOSE c \in found : TRUE].tasks
        hits == {i \in DOMAIN sourceTasks : sourceTasks[i].id = taskId}
    IN  IF hits = {} THEN cols
        ELSE LET task == sourceTasks[CHOOSE i \in hits : \A j \in hits : i <= j]
             IN  [c \in DOMAIN cols |->
                    IF cols[c].id = fromColumn
                    THEN [cols[c] EXCEPT !.tasks =
                            SelectSeq(cols[c].tasks, LAMBDA t : t.id # taskId)]
                    ELSE IF cols[c].id = toColumn
                    THEN [cols[c] EXCEPT !.tasks =
                            Append(cols[c].tasks, [task EXCEPT !.status = toColumn])]
                    ELSE cols[c]]

\* a plausible slip: the card is appended as it was, status not rewritten
handleTaskMove_Local_KeepsStatus(cols, taskId, fromColumn, toColumn) ==
    LET found == {c \in DOMAIN cols : cols[c].id = fromColumn}
        sourceTasks == IF found = {} THEN <<>>
                       ELSE cols[CHOOSE c \in found : TRUE].tasks
        hits == {i \in DOMAIN sourceTasks : sourceTasks[i].id = taskId}
    IN  IF hits = {} THEN cols
        ELSE LET task == sourceTasks[CHOOSE i \in hits : \A j \in hits : i <= j]
             IN  [c \in DOMAIN cols |->
                    IF cols[c].id = fromColumn
                    THEN [cols[c] EXCEPT !.tasks =
                            SelectSeq(cols[c].tasks, LAMBDA t : t.id # taskId)]
                    ELSE IF cols[c].id = toColumn
                    THEN [cols[c] EXCEPT !.tasks = Append(cols[c].tasks, task)]
                    ELSE cols[c]]

\* handleTaskMove of the local board: the next value of columns
handleTaskMove_Local(cols, taskId, fromColumn, toColumn) ==
    LET found == {c \in DOMAIN cols : cols[c].id = fromColumn}
        sourceTasks == IF found = {} THEN <<>>
                       ELSE cols[CHOOSE c \in found : TRUE].tasks
        hits == {i \in DOMAIN sourceTasks : sourceTasks[i].id = taskId}
    IN  IF hits = {} THEN cols
        ELSE LET task == sourceTasks[CHOOSE i \in hits : \A j \in hits : i <= j]
             IN  [c \in DOMAIN cols |->
                    IF cols[c].id = fromColumn
                    THEN [cols[c] EXCEPT !.tasks =
                            SelectSeq(cols[c].tasks, LAMBDA t : t.id # taskId)]
                    ELSE IF cols[c].id = toColumn
                    THEN [cols[c] EXCEPT !.tasks =
                            Append(cols[c].tasks, [task EXCEPT !.status = toColumn])]
                    ELSE cols[c]]

\* a drop on the local board: handleDrop, then handleTaskMove when it is called
LocalDrop(taskId, columnId) ==
    /\ lastDrop.n < MaxDrops
    /\ LET d == handleDrop(columns, taskId, columnId)
       IN  /\ columns' = IF d.onTaskMove
                         THEN handleTaskMove_Local(columns, taskId, d.fromColumn, columnId)
                         ELSE columns
           /\ lastDrop' = DropEvent(lastDrop.n + 1, taskId, columnId, d)
    /\ draggedTask' = "null"
    /\ draggedOverColumn' = "null"
    /\ UNCHANGED <<apiBoardVars, nonBoardVars>>

\* handleDragStart(taskId): a card of the board starts being dragged
DragStart(taskId) ==
    /\ taskId \in ShownIds(columns)
    /\ draggedTask' = taskId
    /\ UNCHANGED <<draggedOverColumn, lastDrop, columns, apiBoardVars, nonBoardVars>>

\* handleDragOver(e, columnId): the drag passes over a column
DragOver(columnId) ==
    /\ draggedOverColumn' = columnId
    /\ UNCHANGED <<draggedTask, lastDrop, columns, apiBoardVars, nonBoardVars>>

\* a plausible slip: the hovered column is not reset
handleDragEnd_KeepsColumn ==
    /\ draggedTask' = "null"
    /\ draggedOverColumn' = draggedOverColumn

\* handleDragEnd
handleDragEnd ==
    /\ draggedTask' = "null"
    /\ draggedOverColumn' = "null"

\* the drag ends (dropped anywhere, or cancelled)
DragEnd ==
    /\ handleDragEnd
    /\ UNCHANGED <<lastDrop, columns, apiBoardVars, nonBoardVars>>

InitLocalBoard == columns = initialColumns


(***************************************************************************)
(* BoardPage backed by the API: columns derived from useTasks, moves sent  *)
(* through useUpdateTask.                                                  *)
(***************************************************************************)

BoardTaskIds == {"T1", "T2"}

\* the order of the tasks in the list the server returns
TaskOrder == <<"T1", "T2">>

ApiColumnIds == <<"todo", "in_progress", "in_review", "done">>

\* TaskStatus['type']
TaskStatusTypes == {"todo", "in_progress", "done", "canceled"}

\* Task.status is a TaskStatus object or a string
StatusString(s) == [kind |-> "string", str |-> s]
StatusObject(t) == [kind |-> "object", type |-> t]

TaskStatuses ==
    {StatusString(s) : s \in TaskStatusTypes} \cup {StatusObject(t) : t \in TaskStatusTypes}

\* typeof task.status === 'string' ? task.status : task.status?.type
statusType(status) ==
    IF status.kind = "string" THEN status.str ELSE status.type

\* TasksAPI.mapTask, the status field: an object is kept, a bare tag becomes
\* { id: t.status, name: 'Unknown', type: 'todo', color: '#gray' }
mapTask(status) ==
    IF status.kind = "object"
    THEN status
    ELSE [kind |-> "object", type |-> "todo", id |-> status.str]

\* the server stores a new status, served in the form it had
WithStatus(status, s) ==
    IF status.kind = "string" THEN StatusString(s) ELSE StatusObject(s)

\* tasksData?.results || []
BoardTasks ==
    IF boardList.status = "pending" THEN <<>> ELSE TaskOrder

\* the cards pushed to one column by tasks.forEach, in list order
ColumnTasks(order, data, columnId) ==
    LET InColumn(t) == statusType(data[t]) = columnId
        mine == SelectSeq(order, InColumn)
    IN  [i \in DOMAIN mine |-> Card(mine[i], statusType(data[mine[i]]))]

\* the columns BoardPage builds from the task list on each render
DeriveColumns(order, data) ==
    [c \in DOMAIN ApiColumnIds |->
        [id |-> ApiColumnIds[c], tasks |-> ColumnTasks(order, data, ApiColumnIds[c])]]

BoardColumns == DeriveColumns(BoardTasks, boardList.data)

\* what a drag over the API board can carry
ApiDragData == BoardTaskIds \cup {"x"}

\* a mutation of useUpdateTask in flight: PATCH of task id with {status};
\* solo records whether no other move and no pending invalidation has
\* accompanied it so far, board0 the columns shown when such a move was issued
NewMove(n, taskId, toColumn) ==
    LET solo == moves = {} /\ ~boardList.isInvalidated
    IN  [n |-> n, id |-> taskId, status |-> toColumn, pc |-> "sent",
         solo |-> solo, board0 |-> IF solo THEN BoardColumns ELSE <<>>]

\* the moves in flight once another one joins them
Accompanied(ms) == {[m EXCEPT !.solo = FALSE, !.board0 = <<>>] : m \in ms}

\* handleTaskMove that also writes the new status into the cached list
handleTaskMove_OptimisticNoRollback(n, taskId, _fromColumn, toColumn) ==
    /\ moves' = Accompanied(moves) \cup {NewMove(n, taskId, toColumn)}
    /\ boardList' = [boardList EXCEPT
                        !.data[taskId] = WithStatus(boardList.data[taskId], toColumn)]

\* handleTaskMove of the API board: updateTask.mutateAsync({id, data: {status}})
handleTaskMove(n, taskId, _fromColumn, toColumn) ==
    /\ moves' = Accompanied(moves) \cup {NewMove(n, taskId, toColumn)}
    /\ boardList' = boardList

\* a drop on the API board: handleDrop, then handleTaskMove when it is called
ApiDrop(taskId, columnId) ==
    /\ lastDrop.n < MaxDrops
    /\ LET d == handleDrop(BoardColumns, taskId, columnId)
       IN  /\ IF d.onTaskMove
              THEN handleTaskMove(lastDrop.n + 1, taskId, d.fromColumn, columnId)
              ELSE UNCHANGED <<moves, boardList>>
           /\ lastDrop' = DropEvent(lastDrop.n + 1, taskId, columnId, d)
    /\ draggedTask' = "null"
    /\ draggedOverColumn' = "null"
    /\ UNCHANGED <<srvTasks, columns, nonBoardVars>>

\* the server applies the PATCH of a move
ServerApply(m) ==
    /\ m \in moves /\ m.pc = "sent"
    /\ srvTasks' = [srvTasks EXCEPT ![m.id] = WithStatus(srvTasks[m.id], m.status)]
    /\ moves' = (moves \ {m}) \cup {[m EXCEPT !.pc = "applied"]}
    /\ UNCHANGED <<boardList, dragVars, columns, nonBoardVars>>

\* the response of an applied move arrives: onSuccess of useUpdateTask
\* invalidates detail(id) and lists(); the list is observed, so it refetches
MoveSuccess(m) ==
    /\ m \in moves /\ m.pc = "applied"
    /\ moves' = moves \ {m}
    /\ boardList' = [boardList EXCEPT !.isInvalidated = TRUE, !.fetching = TRUE]
    /\ UNCHANGED <<srvTasks, dragVars, columns, nonBoardVars>>

\* the server rejects the PATCH of a move: mutateAsync throws, the catch logs
MoveFail(m) ==
    /\ m \in moves /\ m.pc = "sent"
    /\ moves' = moves \ {m}
    /\ UNCHANGED <<boardList, srvTasks, dragVars, columns, nonBoardVars>>

\* the list request in flight is answered with the server's list
ListResolve ==
    /\ boardList.fetching
    /\ boardList' = [status |-> "success", data |-> srvTasks,
                     isInvalidated |-> FALSE, fetching |-> FALSE]
    /\ UNCHANGED <<srvTasks, moves, dragVars, columns, nonBoardVars>>

\* the list has gone stale (staleTime) and a focus or remount refetches it
ListRefetch ==
    /\ ~boardList.fetching
    /\ boardList' = [boardList EXCEPT !.fetching = TRUE]
    /\ UNCHANGED <<srvTasks, moves, dragVars, columns, nonBoardVars>>

\* the task lists the server may hold when the page opens: it serves every
\* status in one form; T1 starts anywhere, T2 in the first column or canceled
InitServer ==
    srvTasks \in {f \in [BoardTaskIds -> TaskStatuses] :
                     /\ f["T1"].kind = f["T2"].kind
                     /\ statusType(f["T2"]) \in {"todo", "canceled"}}

\* the lists for the runs that follow both boards at once: T1 in the first
\* column, T2 there too or canceled, hence on no column
InitServerBoards ==
    srvTasks \in {f \in [BoardTaskIds -> TaskStatuses] :
                     /\ f["T1"] = StatusString("todo")
                     /\ f["T2"] \in {StatusString("todo"), StatusString("canceled")}}

\* a server list for the runs that never open the board
InitServerIdle == srvTasks = [t \in BoardTaskIds |-> StatusString("todo")]

\* the page has mounted: useTasks has no data yet and its first request is out
InitBoard ==
    /\ boardList = [status |-> "pending", data |-> <<>>,
                    isInvalidated |-> FALSE, fetching |-> TRUE]
    /\ moves = {}

NextBoard ==
    \/ \E t \in ApiDragData, c \in {ApiColumnIds[i] : i \in DOMAIN ApiColumnIds} : ApiDrop(t, c)
    \/ \E m \in moves : ServerApply(m)
    \/ \E m \in moves : MoveSuccess(m)
    \/ \E m \in moves : MoveFail(m)
    \/ ListResolve
    \/ ListRefetch

\* the API board when the server accepts every PATCH
NextBoardRace ==
    \/ \E t \in ApiDragData, c \in {ApiColumnIds[i] : i \in DOMAIN ApiColumnIds} : ApiDrop(t, c)
    \/ \E m \in moves : ServerApply(m)
    \/ \E m \in moves : MoveSuccess(m)
    \/ ListResolve
    \/ ListRefetch

\* KanbanBoard on the local board: drags, hovers, drops
NextDrag ==
    \/ \E t \in LocalDragData : DragStart(t)
    \/ \E i \in DOMAIN LocalColumnIds : DragOver(LocalColumnIds[i])
    \/ DragEnd
    \/ \E t \in LocalDragData, i \in DOMAIN LocalColumnIds : LocalDrop(t, LocalColumnIds[i])

NextLocalBoard ==
    \E t \in LocalDragData, c \in {LocalColumnIds[i] : i \in DOMAIN LocalColumnIds} : LocalDrop(t, c)


(***************************************************************************)
(* Resource clients: the query parameters of a list call.                  *)
(***************************************************************************)

\* JavaScript values a filter can hold; text is a sequence of tokens
Undefined == [t |-> "undefined"]
Null == [t |-> "null"]
Str(text) == [t |-> "string", s |-> text]
Bool(b) == [t |-> "boolean", b |-> b]
Arr(items) == [t |-> "array", items |-> items]

\* TaskFilters: each filter, the parameter getAll sends it as, and its type
TaskFilters ==
    << [f |-> "projectId", p |-> "project", type |-> "string"],
       [f |-> "sectionId", p |-> "section", type |-> "string"],
       [f |-> "statusId", p |-> "status", type |-> "string"],
       [f |-> "assigneeId", p |-> "assignee", type |-> "string"],
       [f |-> "priority", p |-> "priority", type |-> "string"],
       [f |-> "type", p |-> "type", type |-> "string"],
       [f |-> "labels", p |-> "labels", type |-> "array"],
       [f |-> "search", p |-> "search", type |-> "string"],
       [f |-> "isArchived", p |-> "is_archived", type |-> "boolean"],
       [f |-> "isBlocked", p |-> "is_blocked", type |-> "boolean"] >>

FilterNames == {TaskFilters[i].f : i \in DOMAIN TaskFilters}

FilterOf(name) == TaskFilters[CHOOSE i \in DOMAIN TaskFilters : TaskFilters[i].f = name]

\* the values a caller may give a filter of a type, besides leaving it out
ValuesOf(type) ==
    CASE type = "string" -> {Null, Str(<<>>), Str(<<"x">>)}
      [] type = "boolean" -> {Null, Bool(FALSE), Bool(TRUE)}
      [] type = "array" -> {Null, Arr(<<>>), Arr(<<"a", "b">>)}

\* the filters objects that give a value to the names in S
FiltersOn(S) ==
    {[n \in FilterNames |-> IF n \in S THEN g[n] ELSE Undefined] :
        g \in {h \in [S -> UNION {ValuesOf(ty) : ty \in {"string", "boolean", "array"}}] :
                  \A n \in S : h[n] \in ValuesOf(FilterOf(n).type)}}

\* the filters objects a list call is made with
FilterInputs ==
    UNION {FiltersOn(S) : S \in {T \in SUBSET FilterNames : Cardinality(T) <= MaxFilters}}

\* if (x): JavaScript truthiness
Truthy(x) ==
    CASE x.t = "undefined" -> FALSE
      [] x.t = "null" -> FALSE
      [] x.t = "string" -> x.s # <<>>
      [] x.t = "boolean" -> x.b
      [] x.t = "array" -> TRUE

RECURSIVE join(_, _)
\* Array.prototype.join
join(items, sep) ==
    IF items = <<>> THEN <<>>
    ELSE IF Len(items) = 1 THEN <<items[1]>>
    ELSE <<items[1], sep>> \o join(Tail(items), sep)

\* String(x), as a template literal or string concatenation renders a value
String(x) ==
    CASE x.t = "undefined" -> <<"undefined">>
      [] x.t = "null" -> <<"null">>
      [] x.t = "string" -> x.s
      [] x.t = "boolean" -> IF x.b THEN <<"true">> ELSE <<"false">>
      [] x.t = "array" -> join(x.items, ",")

NameOfParam(p) == TaskFilters[CHOOSE i \in DOMAIN TaskFilters : TaskFilters[i].p = p].f

\* a plausible slip: every filter is copied into params as text
getAll_Stringified(fs) ==
    [p \in {FilterOf(n).p : n \in FilterNames} |-> Str(String(fs[NameOfParam(p)]))]

\* TasksAPI.getAll: the params object built from the filters; string filters
\* are copied when truthy, labels joined when truthy, booleans copied when
\* not undefined
getAll(fs) ==
    LET taken == {n \in FilterNames :
                    IF FilterOf(n).type = "boolean" THEN fs[n] # Undefined
                    ELSE Truthy(fs[n])}
    IN  [p \in {FilterOf(n).p : n \in taken} |->
            IF FilterOf(NameOfParam(p)).type = "array"
            THEN Str(join(fs[NameOfParam(p)].items, ","))
            ELSE fs[NameOfParam(p)]]

\* the query string the client of TasksAPI sends for a params object:
\* key=value pairs, undefined and null values left out
ClientQuery(params) ==
    {<<k, String(params[k])>> : k \in {j \in DOMAIN params : params[j].t \notin {"undefined", "null"}}}

\* the query string axios sends for config.params: entries whose value is
\* null or undefined are skipped
AxiosQuery(params) ==
    {<<k, String(params[k])>> : k \in {j \in DOMAIN params : params[j] # Null /\ params[j] # Undefined}}

\* the same filters given to BaseAPIService.list as a QueryParams object
QueryParams(fs) == [p \in {FilterOf(n).p : n \in FilterNames} |-> fs[NameOfParam(p)]]

\* BaseAPIService.list: apiClient.get(endpoint, {params})
list(params) == AxiosQuery(params)

\* tasksAPI.getAll(filters) is called
GetAll ==
    /\ sent.call = "none"
    /\ sent' = [call |-> "getAll", query |-> ClientQuery(getAll(filters))]
    /\ UNCHANGED <<filters, nonClientVars>>

\* service.list(params) is called; QueryParams holds scalars
List ==
    /\ sent.call = "none"
    /\ \A n \in FilterNames : filters[n].t # "array"
    /\ sent' = [call |-> "list", query |-> list(QueryParams(filters))]
    /\ UNCHANGED <<filters, nonClientVars>>

InitClient ==
    /\ filters \in FilterInputs
    /\ sent = [call |-> "none", query |-> {}]

InitClientIdle ==
    /\ filters = [n \in FilterNames |-> Undefined]
    /\ sent = [call |-> "none", query |-> {}]

NextClient == GetAll \/ List

Defined(x) == x.t \notin {"undefined", "null"}

SentParams == {e[1] : e \in sent.query}

C3_PartitionInvariant ==
    boardList.status = "success" =>
        /\ ShownIds(BoardColumns) = BoardTaskIds
        /\ \A t \in BoardTaskIds : Occurrences(BoardColumns, t) = 1

\* C13: a task of the loaded list whose status type is no column id is still
\* shown on the board, in some column
C13_NoTaskDropped ==
    boardList.status = "success" =>
        \A t \in BoardTaskIds :
            (\A c \in DOMAIN ApiColumnIds : statusType(boardList.data[t]) # ApiColumnIds[c])
                => ColumnOf(BoardColumns, t) # "undefined"

\* C18: a loaded task whose status is the bare tag s, or an object with
\* type s, is placed in the column for s, and normalising its status to the
\* object form keeps s as the type used for placement
C18_StatusUniform ==
    boardList.status = "success" =>
        \A t \in BoardTaskIds :
            /\ ColumnOf(BoardColumns, t) = statusType(boardList.data[t])
            /\ statusType(mapTask(boardList.data[t])) = statusType(boardList.data[t])

\* C4: right after a drop that moves task t from a column to another one, the
\* board shows t in the target column, every other task where it was, and a
\* status mutation for (t, target) is in flight
C4_OptimisticCorrectness ==
    [][(lastDrop'.n # lastDrop.n /\ lastDrop'.moved) =>
          /\ ColumnOf(BoardColumns', lastDrop'.task) = lastDrop'.to
          /\ \A u \in BoardTaskIds \ {lastDrop'.task} :
                ColumnOf(BoardColumns', u) = ColumnOf(BoardColumns, u)
          /\ \E m \in moves' : /\ m.n = lastDrop'.n
                               /\ m.id = lastDrop'.task
                               /\ m.status = lastDrop'.to]_vars

\* the step in which the server's rejection of move m reaches the page
Rejected(m) ==
    /\ m \in moves
    /\ m.pc = "sent"
    /\ \A m2 \in moves' : m2.n # m.n

\* C5: the rejection of a move changes neither the board nor the cached list,
\* and when nothing else was moved or refetched meanwhile the board is again
\* the board shown when the move was issued, the task in its source column
C5_Reversion ==
    [][\A m \in moves :
          Rejected(m) =>
              /\ boardList' = boardList
              /\ BoardColumns' = BoardColumns
              /\ m.solo => BoardColumns' = m.board0]_vars

\* a move issued alone was rejected: it is gone, the server never applied it,
\* and the board shows the task in the column it was dragged from
C5_Witness ==
    /\ lastDrop.n = 1
    /\ lastDrop.moved
    /\ moves = {}
    /\ ~boardList.fetching
    /\ statusType(srvTasks[lastDrop.task]) # lastDrop.to
    /\ ColumnOf(BoardColumns, lastDrop.task) = lastDrop.from

Others(tasks, taskId) == SelectSeq(tasks, LAMBDA t : t.id # taskId)

\* C27: on the local board every card's status is the id of the column it is
\* in; a move appends the card, with the target's id as status, at the end of
\* the target column, and leaves the other cards of every column in the
\* order they had
C27_LocalStatusAndOrder ==
    [][/\ \A c \in DOMAIN columns : \A i \in DOMAIN columns[c].tasks :
            columns[c].tasks[i].status = columns[c].id
       /\ \A c \in DOMAIN columns' : \A i \in DOMAIN columns'[c].tasks :
            columns'[c].tasks[i].status = columns'[c].id
       /\ (lastDrop'.n = lastDrop.n + 1 /\ lastDrop'.moved) =>
            \A c \in DOMAIN columns :
               /\ columns'[c].id = columns[c].id
               /\ columns'[c].tasks =
                     IF columns[c].id = lastDrop'.to
                     THEN Append(columns[c].tasks, Card(lastDrop'.task, lastDrop'.to))
                     ELSE Others(columns[c].tasks, lastDrop'.task)]_vars

\* two moves have been made; the card moved last sits at the end of a column
\* behind cards that were there before, and its source column still shows
\* another card
C27_Witness ==
    /\ lastDrop.n = 2
    /\ lastDrop.moved
    /\ \E c \in DOMAIN columns :
          /\ columns[c].id = lastDrop.to
          /\ Len(columns[c].tasks) >= 3
          /\ columns[c].tasks[Len(columns[c].tasks)].id = lastDrop.task
    /\ \E c \in DOMAIN columns :
          columns[c].id = lastDrop.from /\ columns[c].tasks # <<>>

\* column c of cols shows a card with this id
Contains(cols, c, taskId) == \E i \in DOMAIN cols[c].tasks : cols[c].tasks[i].id = taskId

\* C30: a drop calls onTaskMove exactly when some column shows the dropped
\* task and that column is not the drop target, and then with the column that
\* shows the task as fromColumn; otherwise the columns stay as they are; after
\* every drop and every drag end draggedTask and draggedOverColumn are null
C30_DragStateMachine ==
    [][/\ lastDrop'.n = lastDrop.n + 1 =>
            /\ lastDrop'.moved <=>
                  \E c \in DOMAIN columns :
                     Contains(columns, c, lastDrop'.task) /\ columns[c].id # lastDrop'.to
            /\ lastDrop'.moved =>
                  \E c \in DOMAIN columns :
                     /\ columns[c].id = lastDrop'.from
                     /\ Contains(columns, c, lastDrop'.task)
            /\ ~lastDrop'.moved => columns' = columns
            /\ draggedTask' = "null"
            /\ draggedOverColumn' = "null"
       /\ (draggedTask # "null" /\ draggedTask' = "null") => draggedOverColumn' = "null"]_vars

\* a drop has moved a card to another column: the card is in the target and
\* both drag fields are null
C30_Witness ==
    /\ lastDrop.n = 1
    /\ lastDrop.moved
    /\ draggedTask = "null"
    /\ draggedOverColumn = "null"
    /\ ColumnOf(columns, lastDrop.task) = lastDrop.to

\* C21: when every status mutation has been answered with success and the
\* list refetched after the last answer has arrived, the task of the move
\* issued last is shown in the column that move named, whatever the order
\* in which the mutations reached the server and were answered
C21_LaterMoveWins ==
    (/\ boardList.status = "success"
     /\ ~boardList.fetching
     /\ ~boardList.isInvalidated
     /\ moves = {}
     /\ lastDrop.moved)
        => ColumnOf(BoardColumns, lastDrop.task) = lastDrop.to

\* C9: a drop of a task that is on no column, or onto the column it is on,
\* changes no column of either board and issues no mutation
C9_MoveNoOp ==
    [][(lastDrop'.n # lastDrop.n
          /\ (lastDrop'.from = "undefined" \/ lastDrop'.from = lastDrop'.to)) =>
              /\ columns' = columns
              /\ BoardColumns' = BoardColumns
              /\ moves' = moves]_vars

\* a card was dropped onto the column it is on, and it is still there
C9_Witness ==
    /\ lastDrop.n > 0
    /\ lastDrop.from = lastDrop.to
    /\ \/ ColumnOf(BoardColumns, lastDrop.task) = lastDrop.to
       \/ ColumnOf(columns, lastDrop.task) = lastDrop.to

Init == InitGateway /\ InitCache /\ InitDrag /\ InitLocalBoard /\ InitBoard

NextGateway ==
    \/ SetAuth
    \/ ClearAuth
    \/ \E r \in Requests : Send(r)
    \/ \E r \in Requests : ResponseOk(r)
    \/ \E r \in Requests, s \in ErrorStatuses : ResponseError(r, s)
    \/ \E r \in Requests : RefreshResolve(r)
    \/ \E r \in Requests, s \in ErrorStatuses : RefreshReject(r, s)

InitIdle == Init /\ InitServerIdle /\ InitClientIdle

InitOnBoard == Init /\ InitServer /\ InitClientIdle

InitOnBoards == Init /\ InitServerBoards /\ InitClientIdle

InitOnList == Init /\ InitServerIdle /\ InitClient

\* the session: login, logout by each of its three routes, and method calls
\* followed to their continuation
NextSession ==
    \/ SetAuth
    \/ ClearAuth
    \/ \E r \in Ops : Send(r)
    \/ \E r \in Ops : Logout(r)
    \/ \E r \in Ops : AuthServiceLogout(r)
    \/ \E r \in Ops : Login(r)
    \/ \E r \in Ops : LoginOk(r)
    \/ \E r \in Ops : ResponseOk(r)
    \/ \E r \in Ops, s \in ErrorStatuses : ResponseError(r, s)
    \/ \E r \in Ops : RefreshResolve(r)
    \/ \E r \in Ops, s \in ErrorStatuses : RefreshReject(r, s)
    \/ \E r \in Ops : Settle(r)

Spec == InitIdle /\ [][NextGateway]_vars

SpecSession == InitIdle /\ [][NextSession]_vars

SpecCache == InitIdle /\ [][NextCache]_vars

SpecFeatureSlice == InitIdle /\ [][NextFeatureSlice]_vars

SpecDrag == InitIdle /\ [][NextDrag]_vars

SpecStatusChange == InitIdle /\ [][NextStatusChange]_vars

SpecBoard == InitOnBoard /\ [][NextBoard]_vars

SpecBoardRace == InitOnBoard /\ [][NextBoardRace]_vars

SpecLocalBoard == InitIdle /\ [][NextLocalBoard]_vars

SpecClient == InitOnList /\ [][NextClient]_vars

SpecBoards == InitOnBoards /\ [][NextBoard \/ NextLocalBoard]_vars

====
